---- MODULE Spec2Model ----
(***************************************************************************)
(* Stock / order transaction core of jacaremp.py (ERP Jacare MP).          *)
(*                                                                         *)
(* The database is modelled as its committed tables plus, per session, the *)
(* uncommitted writes of the session's transactional connection            *)
(* (get_db_connection_new): a statement adds to the connection's pending   *)
(* writes, conn.commit() applies them at once, conn.rollback() and         *)
(* conn.close() discard them.  An UPDATE of a Produtos row holds the row   *)
(* lock until the transaction ends, so another connection's UPDATE of the  *)
(* same row waits (PostgreSQL, READ COMMITTED).                            *)
(*                                                                         *)
(* Money: preco_venda is in cents; preco_unit, subtotal and valor_total    *)
(* are in 1/100 of a cent (cents x percent); preco_custo and               *)
(* valor_unitario_compra are in 1/10000 of the currency unit, the          *)
(* precision round(novo_custo_medio, 4) writes.                            *)
(***************************************************************************)
EXTENDS Integers, Sequences, FiniteSets, TLC

\* ------------------------------------------------------------- bounds
MaxCart == 2            \* lines a cart may hold
MaxPedidos == 2         \* values the Pedidos id sequence may hand out
MaxEntradas == 2        \* committed purchase receipts
MaxDevolucoes == 2      \* committed returns
MaxQtd == 2             \* largest quantity typed into a cart line or a receipt
EstoqueInicial == 2     \* stock of every product in the initial state
MaxProdutos == 2        \* rows the table Produtos may hold

Sessions == {"s1", "s2"}
ProdIds == {1}                      \* rows of Produtos (full specification)
ProdIdsForm == {1, 9}               \* ids a receipt may be submitted for (9: no such row)
CustoVals == {50000}                \* valor_unitario_compra values of the full specification

VARIABLES
    Produtos,        \* table Produtos: produto_id -> [estoque_atual, preco_custo, preco_venda]
    Pedidos,         \* table Pedidos: pedido_id -> [valor_total, status_pedido]
    Vendas,          \* table Vendas (order lines), in insertion order
    Entradas,        \* table Entradas (purchase receipts), in insertion order
    Devolucoes,      \* table Devolucoes (returns), in insertion order
    pedido_id_seq,   \* last value handed out by the Pedidos id sequence
    session_vendas,  \* st.session_state.vendas of each session: the cart
    pc,              \* where each session's running handler stands
    loc,             \* the running handler's local variables
    pend,            \* uncommitted writes of each session's transactional connection
    conn_cached,     \* the process-wide connection held by get_db_connection_cached
    tela             \* what each session's last request put on the page

vars == <<Produtos, Pedidos, Vendas, Entradas, Devolucoes, pedido_id_seq,
          session_vendas, pc, loc, pend, conn_cached, tela>>

db == <<Produtos, Pedidos, Vendas, Entradas, Devolucoes>>

\* ------------------------------------------------------------ helpers
NoPend == [produtos |-> <<>>, pedidos |-> <<>>, vendas |-> <<>>,
           entradas |-> <<>>, devolucoes |-> <<>>]

NoLoc == [h |-> "none"]

NoTela == [h |-> "none"]

\* st.error(...): the request ended with a message of the page on the screen
TelaErro == [h |-> "erro"]

\* an exception left the script: the request ended with its traceback on the screen
TelaExcecao == [h |-> "excecao"]

\* get_db_connection_cached() hands out a connection that executes statements:
\* none is cached yet ("vazio": the next call connects) or the cached one is
\* usable ("pronta").  "abortada": its transaction is in the failed state, every
\* statement raises InFailedSqlTransaction until a rollback; "fechada": the
\* connection is lost, conn.cursor() raises InterfaceError.
GatewayOk == conn_cached \in {"vazio", "pronta"}

\* the page's reads (fetch_all, sql_pendentes, ...) went through execute_query:
\* the cached connection now exists, with a transaction open
PaginaLida ==
    /\ GatewayOk
    /\ conn_cached' = "pronta"

\* get_db_connection_cached.clear()
CacheClear == conn_cached' = "vazio"

\* the request redraws the page of session s: what an earlier request showed
\* (the product table, a coupon) is gone
PaginaNova(s) == tela' = [tela EXCEPT ![s] = NoTela]

RECURSIVE SumSubtotal(_)
SumSubtotal(itens) ==
    IF itens = <<>> THEN 0
    ELSE Head(itens).subtotal + SumSubtotal(Tail(itens))

RECURSIVE SumQtd(_, _, _)
\* sum of quantidade over the rows of a table for one (pedido_id, produto_id)
SumQtd(rows, pid, p) ==
    IF rows = <<>> THEN 0
    ELSE (IF Head(rows).pedido_id = pid /\ Head(rows).produto_id = p
          THEN Head(rows).quantidade ELSE 0) + SumQtd(Tail(rows), pid, p)

\* round(x, 4) of x = n / d in units of 1/10000, d > 0: to the nearest, ties to even
RoundHalfEven(n, d) ==
    LET q == n \div d
        r == n % d
    IN  IF 2 * r < d THEN q
        ELSE IF 2 * r > d THEN q + 1
        ELSE IF q % 2 = 0 THEN q ELSE q + 1

\* the row of Produtos a statement of session s's transaction works on
RowView(s, p) ==
    IF p \in DOMAIN pend[s].produtos THEN pend[s].produtos[p] ELSE Produtos[p]

\* UPDATE that does not wait for the row lock another transaction holds
LockedNunca(s, p) == FALSE

\* another connection's open transaction has updated row p (and holds its lock)
Locked(s, p) == \E t \in Sessions \ {s} : p \in DOMAIN pend[t].produtos

\* conn.commit(): the connection's pending writes become the committed rows
Commit(s) ==
    /\ Produtos' = [p \in DOMAIN Produtos |->
                      IF p \in DOMAIN pend[s].produtos
                      THEN pend[s].produtos[p] ELSE Produtos[p]]
    /\ Pedidos' = pend[s].pedidos @@ Pedidos
    /\ Vendas' = Vendas \o pend[s].vendas
    /\ Entradas' = Entradas \o pend[s].entradas
    /\ Devolucoes' = Devolucoes \o pend[s].devolucoes
    /\ pend' = [pend EXCEPT ![s] = NoPend]

\* conn.rollback() / conn.close() without commit: the pending writes are dropped
Rollback(s) ==
    /\ pend' = [pend EXCEPT ![s] = NoPend]
    /\ UNCHANGED db

\* ------------------------------------------------------ initial state
\* descricao of the products, as typed into "Descricao da Peca"
Descricao(p) ==
    IF p = 1
    THEN <<"P", "a", "s", "t", "i", "l", "h", "a", " ", "d", "e", " ", "F", "r", "e", "i", "o">>
    ELSE <<"O", "l", "e", "o">>

ProdutoInicial(p) ==
    [codigo_sku |-> p,
     descricao |-> Descricao(p),
     estoque_atual |-> EstoqueInicial,
     preco_custo |-> 40000,
     preco_venda |-> IF p = 1 THEN 10000 ELSE 5000]

InitWith(prods) ==
    /\ Produtos = [p \in prods |-> ProdutoInicial(p)]
    /\ Pedidos = <<>>
    /\ Vendas = <<>>
    /\ Entradas = <<>>
    /\ Devolucoes = <<>>
    /\ pedido_id_seq = 0
    /\ session_vendas = [s \in Sessions |-> <<>>]
    /\ pc = [s \in Sessions |-> "idle"]
    /\ loc = [s \in Sessions |-> NoLoc]
    /\ pend = [s \in Sessions |-> NoPend]
    /\ conn_cached = "vazio"
    /\ tela = [s \in Sessions |-> NoTela]

Init == InitWith(ProdIds)

\* ------------------------------------------------------ execute_query
\* how cursor.execute(sql, params) ends: "nenhum" (no error), an
\* OperationalError raised with the connection still open, the connection lost
\* (an OperationalError too), or a psycopg2 error of another class
ErrosDb == {"nenhum", "OperationalError", "conexao_perdida"}

\* the cached connection after execute_query.  No error: commit (a write) or
\* the transaction stays open (a read), and a successful INSERT INTO Produtos
\* clears the cache.  "except OperationalError" rolls back; on a lost connection
\* conn.rollback() raises InterfaceError and the closed connection stays cached.
\* Any other error class (IntegrityError) is not caught: no rollback, the
\* transaction stays in the failed state.
ExecuteQueryConn(erro, insert_produtos) ==
    CASE erro = "nenhum" -> IF insert_produtos THEN "vazio" ELSE "pronta"
      [] erro = "OperationalError" -> "pronta"
      [] erro = "conexao_perdida" -> "fechada"
      [] OTHER -> "abortada"

\* no open transaction has updated row p: an UPDATE of it does not wait
RowFree(p) == \A t \in Sessions : p \notin DOMAIN pend[t].produtos

\* ------------------------------------------------- Produtos (Estoque)
\* "Salvar Produto (Cadastro Novo)": INSERT INTO Produtos through execute_query;
\* an SKU that exists already violates the table's uniqueness ("Verifique se o
\* SKU ja existe")
ProdutoNovo(s, codigo_sku, erro_db) ==
    /\ pc[s] = "idle"
    /\ GatewayOk
    /\ Cardinality(DOMAIN Produtos) < MaxProdutos
    /\ LET produto_id == Cardinality(DOMAIN Produtos) + 1
           erro == IF \E p \in DOMAIN Produtos : Produtos[p].codigo_sku = codigo_sku
                   THEN "IntegrityError" ELSE erro_db
       IN  /\ Produtos' = IF erro = "nenhum"
                          THEN Produtos @@ (produto_id :>
                                 [ProdutoInicial(produto_id) EXCEPT !.codigo_sku = codigo_sku])
                          ELSE Produtos
           /\ conn_cached' = ExecuteQueryConn(erro, TRUE)
    /\ PaginaNova(s)
    /\ UNCHANGED <<Pedidos, Vendas, Entradas, Devolucoes, pedido_id_seq, session_vendas,
                   pc, loc, pend>>

\* "Atualizar Precos" that also reprices the lines of the product in the orders
\* still Pendente and recomputes their totals
PrecoAtualizarReprecifica(s, produto_id_update, novo_preco_custo, novo_preco_venda, erro_db) ==
    /\ pc[s] = "idle"
    /\ GatewayOk
    /\ produto_id_update \in DOMAIN Produtos
    /\ RowFree(produto_id_update)
    /\ Produtos' = IF erro_db = "nenhum"
                   THEN [Produtos EXCEPT ![produto_id_update].preco_custo = novo_preco_custo,
                                         ![produto_id_update].preco_venda = novo_preco_venda]
                   ELSE Produtos
    /\ Vendas' = [i \in DOMAIN Vendas |->
                    IF /\ erro_db = "nenhum"
                       /\ Vendas[i].produto_id = produto_id_update
                       /\ Pedidos[Vendas[i].pedido_id].status_pedido = "Pendente"
                    THEN [Vendas[i] EXCEPT !.preco_unitario = novo_preco_venda * 100,
                                           !.subtotal = novo_preco_venda * 100 * Vendas[i].quantidade]
                    ELSE Vendas[i]]
    /\ Pedidos' = [pid \in DOMAIN Pedidos |->
                     [Pedidos[pid] EXCEPT !.valor_total =
                         SumSubtotal(SelectSeq(Vendas', LAMBDA v : v.pedido_id = pid))]]
    /\ conn_cached' = ExecuteQueryConn(erro_db, FALSE)
    /\ PaginaNova(s)
    /\ UNCHANGED <<Entradas, Devolucoes, pedido_id_seq, session_vendas, pc, loc, pend>>

\* "Atualizar Precos": UPDATE Produtos SET preco_custo, preco_venda WHERE produto_id
PrecoAtualizar(s, produto_id_update, novo_preco_custo, novo_preco_venda, erro_db) ==
    /\ pc[s] = "idle"
    /\ GatewayOk
    /\ produto_id_update \in DOMAIN Produtos
    /\ RowFree(produto_id_update)
    /\ Produtos' = IF erro_db = "nenhum"
                   THEN [Produtos EXCEPT ![produto_id_update].preco_custo = novo_preco_custo,
                                         ![produto_id_update].preco_venda = novo_preco_venda]
                   ELSE Produtos
    /\ conn_cached' = ExecuteQueryConn(erro_db, FALSE)
    /\ PaginaNova(s)
    /\ UNCHANGED <<Pedidos, Vendas, Entradas, Devolucoes, pedido_id_seq, session_vendas,
                   pc, loc, pend>>

\* fetch_all answering from a cache of the table that no write invalidates:
\* stock and cost as they were when the product was registered
FetchAllProdutosEmCache(s) ==
    [p \in DOMAIN Produtos |->
        [Produtos[p] EXCEPT !.estoque_atual = ProdutoInicial(p).estoque_atual,
                            !.preco_custo = ProdutoInicial(p).preco_custo]]

\* fetch_all("Produtos"): SELECT * FROM Produtos on the cached connection; the
\* statement sees the rows committed when it runs (READ COMMITTED)
FetchAllProdutos(s) == Produtos

\* the page is rendered: df_produtos_full = fetch_all("Produtos") and the table
\* "Estoque Atual de Produtos"; a failed read shows no row (OperationalError,
\* execute_query returns None) or the exception
ProdutosListar(s, erro_db) ==
    /\ pc[s] = "idle"
    /\ IF ~GatewayOk
       THEN /\ tela' = [tela EXCEPT ![s] = [h |-> "erro"]]
            /\ UNCHANGED conn_cached
       ELSE /\ tela' = [tela EXCEPT ![s] =
                          IF erro_db = "nenhum"
                          THEN [h |-> "produtos", rows |-> FetchAllProdutos(s)]
                          ELSE [h |-> "erro"]]
            /\ conn_cached' = ExecuteQueryConn(erro_db, FALSE)
    /\ UNCHANGED <<db, pedido_id_seq, session_vendas, pc, loc, pend>>

\* -------------------------------------------- Pedidos de Venda: cart
\* ItemCarrinho with the subtotal taken from the price before the discount
ItemCarrinhoSemDesconto(produto_id, quantidade_item, percentual_desconto) ==
    LET preco_venda_original == Produtos[produto_id].preco_venda
        preco_unit_com_desconto == preco_venda_original * (100 - percentual_desconto)
    IN  [produto_id |-> produto_id,
         quantidade |-> quantidade_item,
         preco_unit_original |-> preco_venda_original,
         desconto_perc |-> percentual_desconto,
         preco_unit |-> preco_unit_com_desconto,
         subtotal |-> preco_venda_original * 100 * quantidade_item]

\* "Adicionar Item": the line descriptor computed from the product row read
\* in this request
ItemCarrinho(produto_id, quantidade_item, percentual_desconto) ==
    LET preco_venda_original == Produtos[produto_id].preco_venda
        preco_unit_com_desconto == preco_venda_original * (100 - percentual_desconto)
    IN  [produto_id |-> produto_id,
         quantidade |-> quantidade_item,
         preco_unit_original |-> preco_venda_original,
         desconto_perc |-> percentual_desconto,
         preco_unit |-> preco_unit_com_desconto,
         subtotal |-> preco_unit_com_desconto * quantidade_item]

\* AdicionarItem without the comparison of the quantity with the stock
AdicionarItemSemVerificacao(s, produto_id, quantidade_item, percentual_desconto) ==
    /\ pc[s] = "idle"
    /\ PaginaLida
    /\ Len(session_vendas[s]) < MaxCart
    /\ produto_id \in DOMAIN Produtos
    /\ session_vendas' =
          [session_vendas EXCEPT ![s] =
             Append(@, ItemCarrinho(produto_id, quantidade_item, percentual_desconto))]
    /\ PaginaNova(s)
    /\ UNCHANGED <<db, pedido_id_seq, pc, loc, pend>>

\* "Adicionar Item": the quantity is compared with estoque_atual of the row of
\* df_produtos read in this request; the line is appended to the cart or
\* "Estoque insuficiente!" is shown
AdicionarItem(s, produto_id, quantidade_item, percentual_desconto) ==
    /\ pc[s] = "idle"
    /\ PaginaLida
    /\ Len(session_vendas[s]) < MaxCart
    /\ produto_id \in DOMAIN Produtos
    /\ IF quantidade_item > Produtos[produto_id].estoque_atual
       THEN UNCHANGED session_vendas        \* "Estoque insuficiente!"
       ELSE session_vendas' =
              [session_vendas EXCEPT ![s] =
                 Append(@, ItemCarrinho(produto_id, quantidade_item, percentual_desconto))]
    /\ PaginaNova(s)
    /\ UNCHANGED <<db, pedido_id_seq, pc, loc, pend>>

LimparItens(s) ==
    /\ pc[s] = "idle"
    /\ session_vendas[s] # <<>>
    /\ PaginaLida
    /\ session_vendas' = [session_vendas EXCEPT ![s] = <<>>]
    /\ PaginaNova(s)
    /\ UNCHANGED <<db, pedido_id_seq, pc, loc, pend>>

\* ------------------------------------ Pedidos de Venda: Registrar Pedido
\* the selectboxes "Cliente" and "Forma de Pagamento Prevista" start with
\* index=None: nothing selected is the value None
opcoes_clientes == ("Ana" :> 1)

ClienteVals == DOMAIN opcoes_clientes \cup {"None"}

FormaPagamentoVals == {"Pix", "Dinheiro", "None"}

\* PedidoInserir with the button "Registrar Pedido" drawn for an empty cart too
PedidoInserirCarrinhoVazio(s, cliente_selecionado, forma_pagamento) ==
    /\ pc[s] = "idle"
    /\ pedido_id_seq < MaxPedidos
    /\ PaginaLida
    /\ IF cliente_selecionado \notin DOMAIN opcoes_clientes
       THEN UNCHANGED <<pedido_id_seq, pend, loc, pc>>
       ELSE LET pedido_id == pedido_id_seq + 1
                valor_total == SumSubtotal(session_vendas[s])
            IN  /\ pedido_id_seq' = pedido_id
                /\ pend' = [pend EXCEPT ![s].pedidos =
                              (pedido_id :> [cliente_id |-> opcoes_clientes[cliente_selecionado],
                                             valor_total |-> valor_total,
                                             status_pedido |-> "Pendente",
                                             forma_pagamento |-> forma_pagamento]) @@ @]
                /\ loc' = [loc EXCEPT ![s] = [h |-> "pedido", pedido_id |-> pedido_id,
                                              i |-> 1]]
                /\ pc' = [pc EXCEPT ![s] = "pedido"]
    /\ PaginaNova(s)
    /\ UNCHANGED <<db, session_vendas>>

\* valor_total = df_itens['subtotal'].sum(); cliente_id = opcoes_clientes[cliente_selecionado]
\* (KeyError when nothing is selected: except -> rollback, nothing was written),
\* then INSERT INTO Pedidos ... RETURNING pedido_id with forma_pagamento as selected.
\* The button is drawn inside "if st.session_state.vendas:" only.
PedidoInserir(s, cliente_selecionado, forma_pagamento) ==
    /\ pc[s] = "idle"
    /\ session_vendas[s] # <<>>
    /\ pedido_id_seq < MaxPedidos
    /\ PaginaLida
    /\ IF cliente_selecionado \notin DOMAIN opcoes_clientes
       THEN UNCHANGED <<pedido_id_seq, pend, loc, pc>>
       ELSE LET pedido_id == pedido_id_seq + 1
                valor_total == SumSubtotal(session_vendas[s])
            IN  /\ pedido_id_seq' = pedido_id
                /\ pend' = [pend EXCEPT ![s].pedidos =
                              (pedido_id :> [cliente_id |-> opcoes_clientes[cliente_selecionado],
                                             valor_total |-> valor_total,
                                             status_pedido |-> "Pendente",
                                             forma_pagamento |-> forma_pagamento]) @@ @]
                /\ loc' = [loc EXCEPT ![s] = [h |-> "pedido", pedido_id |-> pedido_id,
                                              i |-> 1]]
                /\ pc' = [pc EXCEPT ![s] = "pedido"]
    /\ PaginaNova(s)
    /\ UNCHANGED <<db, session_vendas>>

\* PedidoItem on a connection that commits after every line
PedidoItemAutocommit(s) ==
    /\ pc[s] = "pedido"
    /\ loc[s].i <= Len(session_vendas[s])
    /\ LET item == session_vendas[s][loc[s].i]
           prod_id == item.produto_id
           qtd == item.quantidade
       IN  /\ ~Locked(s, prod_id)
           /\ Vendas' = Vendas \o Append(pend[s].vendas,
                                         [pedido_id |-> loc[s].pedido_id,
                                          produto_id |-> prod_id,
                                          quantidade |-> qtd,
                                          preco_unitario |-> item.preco_unit,
                                          subtotal |-> item.subtotal,
                                          desconto |-> item.desconto_perc])
           /\ Produtos' = [Produtos EXCEPT ![prod_id].estoque_atual = @ - qtd]
           /\ Pedidos' = pend[s].pedidos @@ Pedidos
           /\ pend' = [pend EXCEPT ![s] = NoPend]
    /\ loc' = [loc EXCEPT ![s].i = @ + 1]
    /\ UNCHANGED <<Entradas, Devolucoes, pedido_id_seq, conn_cached, tela, session_vendas, pc>>

\* one turn of "for item in st.session_state.vendas": INSERT INTO Vendas, then
\* UPDATE Produtos SET estoque_atual = estoque_atual - qtd
PedidoItem(s) ==
    /\ pc[s] = "pedido"
    /\ loc[s].i <= Len(session_vendas[s])
    /\ LET item == session_vendas[s][loc[s].i]
           prod_id == item.produto_id
           qtd == item.quantidade
       IN  /\ ~Locked(s, prod_id)
           /\ pend' = [pend EXCEPT
                ![s].vendas = Append(@, [pedido_id |-> loc[s].pedido_id,
                                         produto_id |-> prod_id,
                                         quantidade |-> qtd,
                                         preco_unitario |-> item.preco_unit,
                                         subtotal |-> item.subtotal,
                                         desconto |-> item.desconto_perc]),
                ![s].produtos = (prod_id :> [RowView(s, prod_id) EXCEPT
                                               !.estoque_atual = @ - qtd]) @@ @]
    /\ loc' = [loc EXCEPT ![s].i = @ + 1]
    /\ UNCHANGED <<db, pedido_id_seq, conn_cached, tela, session_vendas, pc>>

\* PedidoCommit that leaves the lines in the cart
PedidoCommitMantemCarrinho(s) ==
    /\ pc[s] = "pedido"
    /\ loc[s].i > Len(session_vendas[s])
    /\ Commit(s)
    /\ CacheClear
    /\ pc' = [pc EXCEPT ![s] = "idle"]
    /\ loc' = [loc EXCEPT ![s] = NoLoc]
    /\ UNCHANGED <<pedido_id_seq, tela, session_vendas>>

\* conn.commit(); st.session_state.vendas = []; get_db_connection_cached.clear()
PedidoCommit(s) ==
    /\ pc[s] = "pedido"
    /\ loc[s].i > Len(session_vendas[s])
    /\ Commit(s)
    /\ session_vendas' = [session_vendas EXCEPT ![s] = <<>>]
    /\ CacheClear
    /\ pc' = [pc EXCEPT ![s] = "idle"]
    /\ loc' = [loc EXCEPT ![s] = NoLoc]
    /\ UNCHANGED <<pedido_id_seq, tela>>

\* a statement raises: except -> conn.rollback(); st.error("Erro ao registrar pedido: ..."); finally ->
\* cursor.close(); conn.close()
PedidoFalha(s) ==
    /\ pc[s] = "pedido"
    /\ Rollback(s)
    /\ pc' = [pc EXCEPT ![s] = "idle"]
    /\ loc' = [loc EXCEPT ![s] = NoLoc]
    /\ tela' = [tela EXCEPT ![s] = TelaErro]
    /\ UNCHANGED <<pedido_id_seq, conn_cached, session_vendas>>

\* "Registrar Pedido" when get_db_connection_new() returns None (connect raised
\* OperationalError): conn.cursor() raises AttributeError inside the try;
\* except -> "if conn" is false, st.error; finally -> "if cursor" reads a name
\* that was never assigned and NameError leaves the script
PedidoSemConexao(s) ==
    /\ pc[s] = "idle"
    /\ session_vendas[s] # <<>>
    /\ PaginaLida
    /\ tela' = [tela EXCEPT ![s] = TelaExcecao]
    /\ UNCHANGED <<db, pedido_id_seq, session_vendas, pc, loc, pend>>

\* a statement raises because the connection was lost: except -> conn.rollback()
\* raises InterfaceError on the closed connection, st.error is not reached;
\* finally closes and the exception leaves the script.  The server has dropped
\* the transaction.
PedidoConexaoPerdida(s) ==
    /\ pc[s] = "pedido"
    /\ Rollback(s)
    /\ pc' = [pc EXCEPT ![s] = "idle"]
    /\ loc' = [loc EXCEPT ![s] = NoLoc]
    /\ tela' = [tela EXCEPT ![s] = TelaExcecao]
    /\ UNCHANGED <<pedido_id_seq, conn_cached, session_vendas>>

\* ------------------------- Pedidos de Venda: Processar Pedidos Pendentes
PedidosPendentes == {pid \in DOMAIN Pedidos : Pedidos[pid].status_pedido = "Pendente"}

\* the request reads sql_pendentes; pedidos_selecionados comes from that list
PendentesSelecionar(s, pedidos_selecionados) ==
    /\ pc[s] = "idle"
    /\ pedidos_selecionados # {}
    /\ pedidos_selecionados \subseteq PedidosPendentes
    /\ PaginaLida
    /\ pc' = [pc EXCEPT ![s] = "selecionado"]
    /\ loc' = [loc EXCEPT ![s] = [h |-> "marcar",
                                  pedidos_selecionados |-> pedidos_selecionados]]
    /\ PaginaNova(s)
    /\ UNCHANGED <<db, pedido_id_seq, session_vendas, pend>>

\* MarcarStatus that also gives the units of a cancelled order back to stock
MarcarStatusRepoe(s, novo) ==
    /\ pc[s] = "selecionado"
    /\ GatewayOk
    /\ Pedidos' = [pid \in DOMAIN Pedidos |->
                     IF pid \in loc[s].pedidos_selecionados
                     THEN [Pedidos[pid] EXCEPT !.status_pedido = novo]
                     ELSE Pedidos[pid]]
    /\ Produtos' = [p \in DOMAIN Produtos |->
                      IF novo = "Cancelado"
                      THEN [Produtos[p] EXCEPT !.estoque_atual =
                              @ + Cardinality({i \in DOMAIN Vendas :
                                     /\ Vendas[i].produto_id = p
                                     /\ Vendas[i].pedido_id \in loc[s].pedidos_selecionados})]
                      ELSE Produtos[p]]
    /\ UNCHANGED <<Vendas, Entradas, Devolucoes, pedido_id_seq, session_vendas, pend>>

\* execute_query: UPDATE Pedidos SET status_pedido = novo WHERE pedido_id IN
\* (pedidos_selecionados), committed on the cached connection
MarcarStatus(s, novo) ==
    /\ pc[s] = "selecionado"
    /\ GatewayOk
    /\ Pedidos' = [pid \in DOMAIN Pedidos |->
                     IF pid \in loc[s].pedidos_selecionados
                     THEN [Pedidos[pid] EXCEPT !.status_pedido = novo]
                     ELSE Pedidos[pid]]
    /\ UNCHANGED <<Produtos, Vendas, Entradas, Devolucoes, pedido_id_seq,
                   session_vendas, pend>>

\* "Marcar como CONCLUIDO": the UPDATE; with "Imprimir Cupom" ticked the coupons
\* of the selected orders are generated next, else clear() and st.rerun()
MarcarConcluido(s, imprimir_cupom) ==
    /\ MarcarStatus(s, "Concluido")
    /\ IF imprimir_cupom
       THEN /\ pc' = [pc EXCEPT ![s] = "cupom"]
            /\ conn_cached' = "pronta"
            /\ UNCHANGED loc
       ELSE /\ pc' = [pc EXCEPT ![s] = "idle"]
            /\ loc' = [loc EXCEPT ![s] = NoLoc]
            /\ CacheClear
    /\ PaginaNova(s)

\* "Marcar como CANCELADO": the UPDATE, clear() and st.rerun()
MarcarCancelado(s) ==
    /\ MarcarStatus(s, "Cancelado")
    /\ pc' = [pc EXCEPT ![s] = "idle"]
    /\ loc' = [loc EXCEPT ![s] = NoLoc]
    /\ CacheClear
    /\ PaginaNova(s)

\* ------------------------------------------------- cupom nao fiscal
\* C.nome of the customer row with this cliente_id (LEFT JOIN Clientes)
ClienteNome(cliente_id) ==
    CHOOSE nome \in DOMAIN opcoes_clientes : opcoes_clientes[nome] = cliente_id

\* the rows of sql_items with the unit price and the subtotal taken from the
\* product's current preco_venda instead of the stored line
RECURSIVE CouponItemsPrecoAtual(_, _)
CouponItemsPrecoAtual(rows, pedido_id) ==
    IF rows = <<>> THEN <<>>
    ELSE (IF Head(rows).pedido_id = pedido_id
          THEN <<[quantidade |-> Head(rows).quantidade,
                  preco_unitario |-> Produtos[Head(rows).produto_id].preco_venda * 100,
                  subtotal |-> Produtos[Head(rows).produto_id].preco_venda * 100
                                  * Head(rows).quantidade,
                  descricao |-> Produtos[Head(rows).produto_id].descricao]>>
          ELSE <<>>) \o CouponItemsPrecoAtual(Tail(rows), pedido_id)

\* sql_items: SELECT I.quantidade, I.preco_unitario, I.subtotal, Pr.descricao
\* FROM Vendas I LEFT JOIN Produtos Pr ... WHERE I.pedido_id = %s
RECURSIVE CouponItems(_, _)
CouponItems(rows, pedido_id) ==
    IF rows = <<>> THEN <<>>
    ELSE (IF Head(rows).pedido_id = pedido_id
          THEN <<[quantidade |-> Head(rows).quantidade,
                  preco_unitario |-> Head(rows).preco_unitario,
                  subtotal |-> Head(rows).subtotal,
                  descricao |-> Produtos[Head(rows).produto_id].descricao]>>
          ELSE <<>>) \o CouponItems(Tail(rows), pedido_id)

\* get_order_details_for_coupon reading the lines' prices from Produtos
get_order_details_preco_atual(pedido_id) ==
    IF pedido_id \notin DOMAIN Pedidos THEN [header |-> "None"]
    ELSE [header |-> [pedido_id |-> pedido_id,
                      cliente_nome |-> ClienteNome(Pedidos[pedido_id].cliente_id),
                      valor_total |-> Pedidos[pedido_id].valor_total,
                      forma_pagamento |-> Pedidos[pedido_id].forma_pagamento],
          items |-> CouponItemsPrecoAtual(Vendas, pedido_id)]

\* sql_header (None when the order has no row), then sql_items
get_order_details_for_coupon(pedido_id) ==
    IF pedido_id \notin DOMAIN Pedidos THEN [header |-> "None"]
    ELSE [header |-> [pedido_id |-> pedido_id,
                      cliente_nome |-> ClienteNome(Pedidos[pedido_id].cliente_id),
                      valor_total |-> Pedidos[pedido_id].valor_total,
                      forma_pagamento |-> Pedidos[pedido_id].forma_pagamento],
          items |-> CouponItems(Vendas, pedido_id)]

\* f"{x:.2f}" of an amount held in 1/100 cent: the amount in cents, rounded
Format2f(x) == RoundHalfEven(x, 100)

\* item['descricao'][:15].ljust(15)
Nome15(descricao) ==
    [i \in 1..15 |-> IF i <= Len(descricao) THEN descricao[i] ELSE " "]

\* the text of the coupon: its fields in the order they are printed
generate_non_fiscal_coupon(pedido_id, order_details) ==
    LET header == order_details.header
        items == order_details.items
    IN  [pedido |-> header.pedido_id,
         cliente |-> header.cliente_nome,
         itens |-> [i \in DOMAIN items |->
                      [nome |-> Nome15(items[i].descricao),
                       qtd |-> items[i].quantidade,
                       unit |-> Format2f(items[i].preco_unitario),
                       total |-> Format2f(items[i].subtotal)]],
         valor_total |-> Format2f(header.valor_total),
         forma_pgto |-> header.forma_pagamento]

\* "Marcar como CONCLUIDO" with "Imprimir Cupom" ticked, after the UPDATE: for
\* each selected order the details are read and the coupon is put on the page,
\* then clear() and st.rerun()
GerarCupons(s) ==
    /\ pc[s] = "cupom"
    /\ IF GatewayOk
       THEN /\ tela' = [tela EXCEPT ![s] =
                          [h |-> "cupom",
                           cupons |-> [pid \in loc[s].pedidos_selecionados |->
                                         generate_non_fiscal_coupon(
                                             pid, get_order_details_for_coupon(pid))]]]
            /\ CacheClear
       ELSE /\ tela' = [tela EXCEPT ![s] = [h |-> "erro"]]
            /\ UNCHANGED conn_cached
    /\ pc' = [pc EXCEPT ![s] = "idle"]
    /\ loc' = [loc EXCEPT ![s] = NoLoc]
    /\ UNCHANGED <<db, pedido_id_seq, session_vendas, pend>>

\* ---------------------------------- Compras e Recebimento de Estoque
\* CustoMedio cut off after the fourth decimal place instead of rounded
CustoMedioTruncado(estoque_atual_db, custo_atual_db, quantidade_entrada, valor_unitario_compra) ==
    LET valor_total_antigo == estoque_atual_db * custo_atual_db
        valor_total_novo == quantidade_entrada * valor_unitario_compra
        novo_estoque == estoque_atual_db + quantidade_entrada
    IN  IF novo_estoque > 0
        THEN (valor_total_antigo + valor_total_novo) \div novo_estoque
        ELSE valor_unitario_compra

\* custo medio: (estoque * custo + quantidade * valor) / novo_estoque, round(., 4)
CustoMedio(estoque_atual_db, custo_atual_db, quantidade_entrada, valor_unitario_compra) ==
    LET valor_total_antigo == estoque_atual_db * custo_atual_db
        valor_total_novo == quantidade_entrada * valor_unitario_compra
        novo_estoque == estoque_atual_db + quantidade_entrada
    IN  IF novo_estoque > 0
        THEN RoundHalfEven(valor_total_antigo + valor_total_novo, novo_estoque)
        ELSE valor_unitario_compra

\* receipts committed or being written by an open transaction
EntradasEmCurso == Len(Entradas) + Cardinality({t \in Sessions : loc[t].h = "compra"})

\* SELECT estoque_atual, preco_custo FROM Produtos WHERE produto_id = %s
CompraLer(s, produto_id, quantidade_entrada, valor_unitario_compra) ==
    /\ pc[s] = "idle"
    /\ EntradasEmCurso < MaxEntradas
    /\ PaginaLida
    /\ IF produto_id \notin DOMAIN Produtos
       THEN UNCHANGED <<pc, loc>>        \* "Produto nao encontrado no DB." st.stop()
       ELSE /\ pc' = [pc EXCEPT ![s] = "compra_lida"]
            /\ loc' = [loc EXCEPT ![s] =
                         [h |-> "compra",
                          produto_id |-> produto_id,
                          quantidade_entrada |-> quantidade_entrada,
                          valor_unitario_compra |-> valor_unitario_compra,
                          estoque_atual_db |-> Produtos[produto_id].estoque_atual,
                          custo_atual_db |-> Produtos[produto_id].preco_custo]]
    /\ PaginaNova(s)
    /\ UNCHANGED <<db, pedido_id_seq, session_vendas, pend>>

\* CompraInserir on a connection that commits the INSERT at once
CompraInserirAutocommit(s) ==
    /\ pc[s] = "compra_lida"
    /\ Entradas' = Append(Entradas,
                          [produto_id |-> loc[s].produto_id,
                           quantidade_comprada |-> loc[s].quantidade_entrada,
                           valor_unitario_compra |-> loc[s].valor_unitario_compra])
    /\ pc' = [pc EXCEPT ![s] = "compra_inserida"]
    /\ UNCHANGED <<Produtos, Pedidos, Vendas, Devolucoes, pedido_id_seq, conn_cached, tela,
                   session_vendas, loc, pend>>

\* INSERT INTO Entradas
CompraInserir(s) ==
    /\ pc[s] = "compra_lida"
    /\ pend' = [pend EXCEPT ![s].entradas =
                  Append(@, [produto_id |-> loc[s].produto_id,
                             quantidade_comprada |-> loc[s].quantidade_entrada,
                             valor_unitario_compra |-> loc[s].valor_unitario_compra])]
    /\ pc' = [pc EXCEPT ![s] = "compra_inserida"]
    /\ UNCHANGED <<db, pedido_id_seq, conn_cached, tela, session_vendas, loc>>

\* UPDATE Produtos SET estoque_atual = novo_estoque, preco_custo = round(novo_custo_medio, 4)
CompraAtualizar(s) ==
    /\ pc[s] = "compra_inserida"
    /\ LET p == loc[s].produto_id
           novo_estoque == loc[s].estoque_atual_db + loc[s].quantidade_entrada
           novo_custo_medio == CustoMedio(loc[s].estoque_atual_db, loc[s].custo_atual_db,
                                          loc[s].quantidade_entrada,
                                          loc[s].valor_unitario_compra)
       IN  /\ ~Locked(s, p)
           /\ pend' = [pend EXCEPT ![s].produtos =
                         (p :> [RowView(s, p) EXCEPT !.estoque_atual = novo_estoque,
                                                     !.preco_custo = novo_custo_medio]) @@ @]
    /\ pc' = [pc EXCEPT ![s] = "compra_atualizada"]
    /\ UNCHANGED <<db, pedido_id_seq, conn_cached, tela, session_vendas, loc>>

\* conn.commit(); st.rerun() (the cached connection is not cleared)
CompraCommit(s) ==
    /\ pc[s] = "compra_atualizada"
    /\ Commit(s)
    /\ pc' = [pc EXCEPT ![s] = "idle"]
    /\ loc' = [loc EXCEPT ![s] = NoLoc]
    /\ UNCHANGED <<pedido_id_seq, conn_cached, tela, session_vendas>>

\* a statement raises: except -> conn.rollback(); st.error("Erro ao processar transacao: ..."); finally ->
\* cursor.close(); conn.close()
CompraFalha(s) ==
    /\ pc[s] \in {"compra_lida", "compra_inserida", "compra_atualizada"}
    /\ Rollback(s)
    /\ pc' = [pc EXCEPT ![s] = "idle"]
    /\ loc' = [loc EXCEPT ![s] = NoLoc]
    /\ tela' = [tela EXCEPT ![s] = TelaErro]
    /\ UNCHANGED <<pedido_id_seq, conn_cached, session_vendas>>

\* "Registrar Compra" when get_db_connection_new() returns None: "if conn is
\* None" -> st.error("Conexao com o banco de dados indisponivel."); st.stop()
CompraSemConexao(s) ==
    /\ pc[s] = "idle"
    /\ EntradasEmCurso < MaxEntradas
    /\ PaginaLida
    /\ tela' = [tela EXCEPT ![s] = TelaErro]
    /\ UNCHANGED <<db, pedido_id_seq, session_vendas, pc, loc, pend>>

\* a statement raises because the connection was lost: except -> conn.rollback()
\* raises InterfaceError, st.error is not reached, the exception leaves the script
CompraConexaoPerdida(s) ==
    /\ pc[s] \in {"compra_lida", "compra_inserida", "compra_atualizada"}
    /\ Rollback(s)
    /\ pc' = [pc EXCEPT ![s] = "idle"]
    /\ loc' = [loc EXCEPT ![s] = NoLoc]
    /\ tela' = [tela EXCEPT ![s] = TelaExcecao]
    /\ UNCHANGED <<pedido_id_seq, conn_cached, session_vendas>>

\* ------------------------------------------------------- Devolucoes
\* item_selecionado: the first line of the order with the chosen product
RECURSIVE ItemSelecionado(_, _, _)
ItemSelecionado(rows, pedido_id_sel, produto) ==
    IF rows = <<>> THEN [quantidade |-> 0]
    ELSE IF Head(rows).pedido_id = pedido_id_sel /\ Head(rows).produto_id = produto
         THEN Head(rows)
         ELSE ItemSelecionado(Tail(rows), pedido_id_sel, produto)

DevolucoesEmCurso ==
    Len(Devolucoes) + Cardinality({t \in Sessions : loc[t].h = "devolucao"})

\* the request lists the orders with status Concluido and the lines of the chosen
\* one; qtd_devolver is limited by max_value = item_selecionado.quantidade
DevolucaoAbrir(s, pedido_id_sel, produto, qtd_devolver, retornar_estoque) ==
    /\ pc[s] = "idle"
    /\ DevolucoesEmCurso < MaxDevolucoes
    /\ pedido_id_sel \in DOMAIN Pedidos
    /\ Pedidos[pedido_id_sel].status_pedido = "Concluido"
    /\ qtd_devolver >= 1
    /\ qtd_devolver <= ItemSelecionado(Vendas, pedido_id_sel, produto).quantidade
    /\ PaginaLida
    /\ pc' = [pc EXCEPT ![s] = "devolucao_aberta"]
    /\ loc' = [loc EXCEPT ![s] = [h |-> "devolucao",
                                  pedido_id |-> pedido_id_sel,
                                  produto_id |-> produto,
                                  quantidade |-> qtd_devolver,
                                  retornar_estoque |-> retornar_estoque]]
    /\ PaginaNova(s)
    /\ UNCHANGED <<db, pedido_id_seq, session_vendas, pend>>

\* DevolucaoInserir on a connection that commits the INSERT at once
DevolucaoInserirAutocommit(s) ==
    /\ pc[s] = "devolucao_aberta"
    /\ Devolucoes' = Append(Devolucoes,
                            [pedido_id |-> loc[s].pedido_id,
                             produto_id |-> loc[s].produto_id,
                             quantidade |-> loc[s].quantidade,
                             retornou_estoque |-> loc[s].retornar_estoque])
    /\ pc' = [pc EXCEPT ![s] = "devolucao_inserida"]
    /\ UNCHANGED <<Produtos, Pedidos, Vendas, Entradas, pedido_id_seq, conn_cached, tela,
                   session_vendas, loc, pend>>

\* INSERT INTO Devolucoes
DevolucaoInserir(s) ==
    /\ pc[s] = "devolucao_aberta"
    /\ pend' = [pend EXCEPT ![s].devolucoes =
                  Append(@, [pedido_id |-> loc[s].pedido_id,
                             produto_id |-> loc[s].produto_id,
                             quantidade |-> loc[s].quantidade,
                             retornou_estoque |-> loc[s].retornar_estoque])]
    /\ pc' = [pc EXCEPT ![s] = "devolucao_inserida"]
    /\ UNCHANGED <<db, pedido_id_seq, conn_cached, tela, session_vendas, loc>>

\* DevolucaoAtualizar that adds the units to stock whatever the checkbox says
DevolucaoAtualizarSempre(s) ==
    /\ pc[s] = "devolucao_inserida"
    /\ LET p == loc[s].produto_id
       IN  /\ ~Locked(s, p)
           /\ pend' = [pend EXCEPT ![s].produtos =
                         (p :> [RowView(s, p) EXCEPT
                                  !.estoque_atual = @ + loc[s].quantidade]) @@ @]
    /\ pc' = [pc EXCEPT ![s] = "devolucao_atualizada"]
    /\ UNCHANGED <<db, pedido_id_seq, conn_cached, tela, session_vendas, loc>>

\* if retornar_estoque: UPDATE Produtos SET estoque_atual = estoque_atual + qtd
DevolucaoAtualizar(s) ==
    /\ pc[s] = "devolucao_inserida"
    /\ IF loc[s].retornar_estoque
       THEN LET p == loc[s].produto_id
            IN  /\ ~Locked(s, p)
                /\ pend' = [pend EXCEPT ![s].produtos =
                              (p :> [RowView(s, p) EXCEPT
                                       !.estoque_atual = @ + loc[s].quantidade]) @@ @]
       ELSE UNCHANGED pend
    /\ pc' = [pc EXCEPT ![s] = "devolucao_atualizada"]
    /\ UNCHANGED <<db, pedido_id_seq, conn_cached, tela, session_vendas, loc>>

\* conn.commit(); get_db_connection_cached.clear()
DevolucaoCommit(s) ==
    /\ pc[s] = "devolucao_atualizada"
    /\ Commit(s)
    /\ CacheClear
    /\ pc' = [pc EXCEPT ![s] = "idle"]
    /\ loc' = [loc EXCEPT ![s] = NoLoc]
    /\ UNCHANGED <<pedido_id_seq, tela, session_vendas>>

\* a statement raises: except -> conn.rollback(); st.error("Erro ao processar: ..."); finally ->
\* cursor.close(); conn.close()
DevolucaoFalha(s) ==
    /\ pc[s] \in {"devolucao_aberta", "devolucao_inserida", "devolucao_atualizada"}
    /\ Rollback(s)
    /\ pc' = [pc EXCEPT ![s] = "idle"]
    /\ loc' = [loc EXCEPT ![s] = NoLoc]
    /\ tela' = [tela EXCEPT ![s] = TelaErro]
    /\ UNCHANGED <<pedido_id_seq, conn_cached, session_vendas>>

\* "Confirmar Devolucao" when get_db_connection_new() returns None:
\* conn.cursor() raises AttributeError; except -> st.error; finally -> "if
\* cursor" raises NameError, which leaves the script
DevolucaoSemConexao(s, pedido_id_sel) ==
    /\ pc[s] = "idle"
    /\ DevolucoesEmCurso < MaxDevolucoes
    /\ pedido_id_sel \in DOMAIN Pedidos
    /\ Pedidos[pedido_id_sel].status_pedido = "Concluido"
    /\ PaginaLida
    /\ tela' = [tela EXCEPT ![s] = TelaExcecao]
    /\ UNCHANGED <<db, pedido_id_seq, session_vendas, pc, loc, pend>>

\* a statement raises because the connection was lost: except -> conn.rollback()
\* raises InterfaceError, st.error is not reached, the exception leaves the script
DevolucaoConexaoPerdida(s) ==
    /\ pc[s] \in {"devolucao_aberta", "devolucao_inserida", "devolucao_atualizada"}
    /\ Rollback(s)
    /\ pc' = [pc EXCEPT ![s] = "idle"]
    /\ loc' = [loc EXCEPT ![s] = NoLoc]
    /\ tela' = [tela EXCEPT ![s] = TelaExcecao]
    /\ UNCHANGED <<pedido_id_seq, conn_cached, session_vendas>>

\* ---------------------------------------------------- specifications
Qtds == 1..MaxQtd

\* the requests of the page "Pedidos de Venda": cart and Registrar Pedido, the
\* customer and the payment method drawn from the given selections
VendaFormStep(s, descontos, clientes, formas) ==
    \/ \E p \in DOMAIN Produtos, q \in Qtds, d \in descontos : AdicionarItem(s, p, q, d)
    \/ LimparItens(s)
    \/ \E c \in clientes, f \in formas : PedidoInserir(s, c, f)
    \/ PedidoItem(s)
    \/ PedidoCommit(s)
    \/ PedidoFalha(s)

\* the same with a customer and a payment method selected
VendaStep(s, descontos) == VendaFormStep(s, descontos, {"Ana"}, {"Pix"})

\* the requests of "Processar Pedidos Pendentes"
StatusStep(s) ==
    \/ \E sel \in SUBSET (1..MaxPedidos) : PendentesSelecionar(s, sel)
    \/ MarcarConcluido(s, FALSE)
    \/ MarcarCancelado(s)

\* the requests of "Processar Pedidos Pendentes" with "Imprimir Cupom" ticked
StatusCupomStep(s) ==
    \/ \E sel \in SUBSET (1..MaxPedidos) : PendentesSelecionar(s, sel)
    \/ MarcarConcluido(s, TRUE)
    \/ MarcarCancelado(s)
    \/ GerarCupons(s)

\* the requests of the page "Compras e Recebimento de Estoque"
CompraStep(s, custos) ==
    \/ \E p \in ProdIdsForm, q \in Qtds, c \in custos : CompraLer(s, p, q, c)
    \/ CompraInserir(s)
    \/ CompraAtualizar(s)
    \/ CompraCommit(s)
    \/ CompraFalha(s)

\* the requests of the page "Devolucoes"
DevolucaoStep(s) ==
    \/ \E pid \in 1..MaxPedidos, p \in DOMAIN Produtos, q \in Qtds, r \in BOOLEAN :
          DevolucaoAbrir(s, pid, p, q, r)
    \/ DevolucaoInserir(s)
    \/ DevolucaoAtualizar(s)
    \/ DevolucaoCommit(s)
    \/ DevolucaoFalha(s)

\* every request of every page, issued by one session: one request at a time,
\* no interleaving
NextSeq ==
    \/ VendaStep("s1", {0})
    \/ StatusStep("s1")
    \/ CompraStep("s1", CustoVals)
    \/ DevolucaoStep("s1")

SpecSeq == Init /\ [][NextSeq]_vars

\* concurrent sessions on the page "Pedidos de Venda": cart and Registrar Pedido
NextPedido == \E s \in Sessions : VendaStep(s, {0})

SpecPedido == Init /\ [][NextPedido]_vars

\* concurrent sessions on the page "Pedidos de Venda", with the status buttons
NextVenda == \E s \in Sessions : VendaStep(s, {0}) \/ StatusStep(s)

SpecVenda == Init /\ [][NextVenda]_vars

\* one session on "Pedidos de Venda", with and without discount, on two
\* products (one unit of product 2 in stock)
DescontoVals == {0, 10}

InitCarrinho ==
    /\ Produtos = (1 :> ProdutoInicial(1))
                     @@ (2 :> [ProdutoInicial(2) EXCEPT !.estoque_atual = 1])
    /\ Pedidos = <<>>
    /\ Vendas = <<>>
    /\ Entradas = <<>>
    /\ Devolucoes = <<>>
    /\ pedido_id_seq = 0
    /\ session_vendas = [s \in Sessions |-> <<>>]
    /\ pc = [s \in Sessions |-> "idle"]
    /\ loc = [s \in Sessions |-> NoLoc]
    /\ pend = [s \in Sessions |-> NoPend]
    /\ conn_cached = "vazio"
    /\ tela = [s \in Sessions |-> NoTela]

NextCarrinho == VendaStep("s1", DescontoVals)

SpecCarrinho == InitCarrinho /\ [][NextCarrinho]_vars

\* valor_unitario_compra values of the receipt specifications
CustoValsCompra == {0, 50000, 33300}

\* concurrent sessions on "Compras e Recebimento de Estoque"
NextCompra == \E s \in Sessions : CompraStep(s, CustoValsCompra)

SpecCompra == Init /\ [][NextCompra]_vars

\* one session on "Compras e Recebimento de Estoque"; the product was created
\* with any stock in 0..EstoqueInicial (the form "Novo Produto" takes any stock >= 0)
InitCompraSeq ==
    /\ \E e \in 0..EstoqueInicial :
          Produtos = [p \in ProdIds |-> [ProdutoInicial(p) EXCEPT !.estoque_atual = e]]
    /\ Pedidos = <<>>
    /\ Vendas = <<>>
    /\ Entradas = <<>>
    /\ Devolucoes = <<>>
    /\ pedido_id_seq = 0
    /\ session_vendas = [s \in Sessions |-> <<>>]
    /\ pc = [s \in Sessions |-> "idle"]
    /\ loc = [s \in Sessions |-> NoLoc]
    /\ pend = [s \in Sessions |-> NoPend]
    /\ conn_cached = "vazio"
    /\ tela = [s \in Sessions |-> NoTela]

NextCompraSeq == CompraStep("s1", CustoValsCompra)

SpecCompraSeq == InitCompraSeq /\ [][NextCompraSeq]_vars

\* concurrent sessions on "Devolucoes", after order 1 (EstoqueInicial units of
\* product 1, no discount) was registered and marked Concluido
InitDevolucao ==
    /\ Produtos = [p \in ProdIds |-> [ProdutoInicial(p) EXCEPT !.estoque_atual = 0]]
    /\ Pedidos = (1 :> [cliente_id |-> 1,
                        valor_total |-> ProdutoInicial(1).preco_venda * 100 * EstoqueInicial,
                        status_pedido |-> "Concluido",
                        forma_pagamento |-> "Pix"])
    /\ Vendas = <<[pedido_id |-> 1, produto_id |-> 1, quantidade |-> EstoqueInicial,
                   preco_unitario |-> ProdutoInicial(1).preco_venda * 100,
                   subtotal |-> ProdutoInicial(1).preco_venda * 100 * EstoqueInicial,
                   desconto |-> 0]>>
    /\ Entradas = <<>>
    /\ Devolucoes = <<>>
    /\ pedido_id_seq = 1
    /\ session_vendas = [s \in Sessions |-> <<>>]
    /\ pc = [s \in Sessions |-> "idle"]
    /\ loc = [s \in Sessions |-> NoLoc]
    /\ pend = [s \in Sessions |-> NoPend]
    /\ conn_cached = "vazio"
    /\ tela = [s \in Sessions |-> NoTela]

NextDevolucao == \E s \in Sessions : DevolucaoStep(s)

SpecDevolucao == InitDevolucao /\ [][NextDevolucao]_vars

\* concurrent sessions on "Processar Pedidos Pendentes" and "Devolucoes", after
\* order 1 (EstoqueInicial units of product 1, no discount) was registered
InitDevolucaoStatus ==
    /\ Produtos = [p \in ProdIds |-> [ProdutoInicial(p) EXCEPT !.estoque_atual = 0]]
    /\ Pedidos = (1 :> [cliente_id |-> 1,
                        valor_total |-> ProdutoInicial(1).preco_venda * 100 * EstoqueInicial,
                        status_pedido |-> "Pendente",
                        forma_pagamento |-> "Pix"])
    /\ Vendas = <<[pedido_id |-> 1, produto_id |-> 1, quantidade |-> EstoqueInicial,
                   preco_unitario |-> ProdutoInicial(1).preco_venda * 100,
                   subtotal |-> ProdutoInicial(1).preco_venda * 100 * EstoqueInicial,
                   desconto |-> 0]>>
    /\ Entradas = <<>>
    /\ Devolucoes = <<>>
    /\ pedido_id_seq = 1
    /\ session_vendas = [s \in Sessions |-> <<>>]
    /\ pc = [s \in Sessions |-> "idle"]
    /\ loc = [s \in Sessions |-> NoLoc]
    /\ pend = [s \in Sessions |-> NoPend]
    /\ conn_cached = "vazio"
    /\ tela = [s \in Sessions |-> NoTela]

NextDevolucaoStatus == \E s \in Sessions : StatusStep(s) \/ DevolucaoStep(s)

SpecDevolucaoStatus == InitDevolucaoStatus /\ [][NextDevolucaoStatus]_vars

\* one session on "Novo Pedido de Venda", the customer and the payment method
\* selected or left unselected
NextPedidoForm == VendaFormStep("s1", {0}, ClienteVals, FormaPagamentoVals)

SpecPedidoForm == Init /\ [][NextPedidoForm]_vars

\* one session on the page "Pedidos de Venda", with the status buttons
NextVendaSeq == VendaStep("s1", {0}) \/ StatusStep("s1")

SpecVendaSeq == Init /\ [][NextVendaSeq]_vars

\* concurrent sessions on the page "Produtos (Estoque)": new products, price
\* updates and the product table, each statement through execute_query
SkuVals == {1, 2}

PrecoCustoVals == {40000, 45000}

PrecoVendaVals == {10000, 12000}

ProdutoStep(s, erros) ==
    \/ \E sku \in SkuVals, e \in erros : ProdutoNovo(s, sku, e)
    \/ \E p \in 1..MaxProdutos, c \in PrecoCustoVals, v \in PrecoVendaVals, e \in erros :
          PrecoAtualizar(s, p, c, v, e)
    \/ \E e \in erros : ProdutosListar(s, e)

NextProdutos == \E s \in Sessions : ProdutoStep(s, ErrosDb)

SpecProdutos == Init /\ [][NextProdutos]_vars

\* every request that changes the table Produtos (new product, price update,
\* receipt, order, return, one unit at a time on product 1), issued by session
\* s1 after order 1 was registered and marked Concluido, session s1 opening
\* the product table between them; session s2 adds a product and updates
\* prices too
NextCatalogo ==
    \/ \E s \in Sessions : ProdutoNovo(s, 2, "nenhum")
    \/ \E s \in Sessions : PrecoAtualizar(s, 1, 45000, 12000, "nenhum")
    \/ ProdutosListar("s1", "nenhum")
    \/ AdicionarItem("s1", 1, 1, 0)
    \/ PedidoInserir("s1", "Ana", "Pix")
    \/ PedidoItem("s1")
    \/ PedidoCommit("s1")
    \/ PedidoFalha("s1")
    \/ CompraLer("s1", 1, 1, 50000)
    \/ CompraInserir("s1")
    \/ CompraAtualizar("s1")
    \/ CompraCommit("s1")
    \/ CompraFalha("s1")
    \/ DevolucaoAbrir("s1", 1, 1, 1, TRUE)
    \/ DevolucaoInserir("s1")
    \/ DevolucaoAtualizar("s1")
    \/ DevolucaoCommit("s1")
    \/ DevolucaoFalha("s1")

SpecCatalogo == InitDevolucao /\ [][NextCatalogo]_vars

\* after order 1 was registered: both sessions conclude it with the coupon
\* printed (or cancel it), and between them the product's prices are updated
\* and units of it are received
NextCupom ==
    \/ \E s \in Sessions : StatusCupomStep(s)
    \/ \E s \in Sessions : PrecoAtualizar(s, 1, 45000, 12000, "nenhum")
    \/ \E s \in Sessions, q \in Qtds : CompraLer(s, 1, q, 50000)
    \/ \E s \in Sessions : CompraInserir(s)
    \/ \E s \in Sessions : CompraAtualizar(s)
    \/ \E s \in Sessions : CompraCommit(s)
    \/ \E s \in Sessions : CompraFalha(s)

SpecCupom == InitDevolucaoStatus /\ [][NextCupom]_vars

\* after order 1 was registered: session s1 receives units, registers later
\* orders and returns of order 1, one unit of product 1 at a time, and marks
\* one order at a time Concluido or Cancelado; session s2 updates the prices
NextHistorico ==
    \/ \E pid \in 1..MaxPedidos : PendentesSelecionar("s1", {pid})
    \/ MarcarConcluido("s1", FALSE)
    \/ MarcarCancelado("s1")
    \/ PrecoAtualizar("s2", 1, 45000, 12000, "nenhum")
    \/ AdicionarItem("s1", 1, 1, 0)
    \/ PedidoInserir("s1", "Ana", "Pix")
    \/ PedidoItem("s1")
    \/ PedidoCommit("s1")
    \/ PedidoFalha("s1")
    \/ CompraLer("s1", 1, 1, 50000)
    \/ CompraInserir("s1")
    \/ CompraAtualizar("s1")
    \/ CompraCommit("s1")
    \/ CompraFalha("s1")
    \/ DevolucaoAbrir("s1", 1, 1, 1, TRUE)
    \/ DevolucaoInserir("s1")
    \/ DevolucaoAtualizar("s1")
    \/ DevolucaoCommit("s1")
    \/ DevolucaoFalha("s1")

SpecHistorico == InitDevolucaoStatus /\ [][NextHistorico]_vars

\* after order 1 was registered and marked Concluido: one session's receipts,
\* orders and returns, one unit of product 1 at a time, each of which may find
\* no connection, have a statement refused or lose its connection
NextFalhas ==
    \/ AdicionarItem("s1", 1, 1, 0)
    \/ PedidoInserir("s1", "Ana", "Pix")
    \/ PedidoItem("s1")
    \/ PedidoCommit("s1")
    \/ PedidoFalha("s1")
    \/ PedidoSemConexao("s1")
    \/ PedidoConexaoPerdida("s1")
    \/ CompraLer("s1", 1, 1, 50000)
    \/ CompraInserir("s1")
    \/ CompraAtualizar("s1")
    \/ CompraCommit("s1")
    \/ CompraFalha("s1")
    \/ CompraSemConexao("s1")
    \/ CompraConexaoPerdida("s1")
    \/ DevolucaoAbrir("s1", 1, 1, 1, TRUE)
    \/ DevolucaoInserir("s1")
    \/ DevolucaoAtualizar("s1")
    \/ DevolucaoCommit("s1")
    \/ DevolucaoFalha("s1")
    \/ DevolucaoSemConexao("s1", 1)
    \/ DevolucaoConexaoPerdida("s1")

SpecFalhas == InitDevolucao /\ [][NextFalhas]_vars

\* both sessions register orders for product 1 and returns of order 1 once
\* session s1 has marked it Concluido, one unit a line
NextVendaDevolucao ==
    \/ \E s \in Sessions : AdicionarItem(s, 1, 1, 0)
    \/ \E s \in Sessions : PedidoInserir(s, "Ana", "Pix")
    \/ \E s \in Sessions : PedidoItem(s)
    \/ \E s \in Sessions : PedidoCommit(s)
    \/ \E s \in Sessions : PedidoFalha(s)
    \/ \E pid \in 1..MaxPedidos : PendentesSelecionar("s1", {pid})
    \/ MarcarConcluido("s1", FALSE)
    \/ \E s \in Sessions, r \in BOOLEAN : DevolucaoAbrir(s, 1, 1, 1, r)
    \/ \E s \in Sessions : DevolucaoInserir(s)
    \/ \E s \in Sessions : DevolucaoAtualizar(s)
    \/ \E s \in Sessions : DevolucaoCommit(s)
    \/ \E s \in Sessions : DevolucaoFalha(s)

SpecVendaDevolucao == Init /\ [][NextVendaDevolucao]_vars

\* valor_unitario_compra of the receipts of SpecCusto (min_value=0.0)
CustoValsBaixo == {0, 50000}

\* one session: product creation, price update, cart additions, orders, the
\* button CONCLUIDO, receipts of MaxQtd units at the prices of CustoValsBaixo
\* and returns of order 1
NextCusto ==
    \/ ProdutoNovo("s1", 2, "nenhum")
    \/ PrecoAtualizar("s1", 1, 45000, 12000, "nenhum")
    \/ \E q \in Qtds : AdicionarItem("s1", 1, q, 0)
    \/ PedidoInserir("s1", "Ana", "Pix")
    \/ PedidoItem("s1")
    \/ PedidoCommit("s1")
    \/ PedidoFalha("s1")
    \/ PendentesSelecionar("s1", {1})
    \/ MarcarConcluido("s1", FALSE)
    \/ \E c \in CustoValsBaixo : CompraLer("s1", 1, MaxQtd, c)
    \/ CompraInserir("s1")
    \/ CompraAtualizar("s1")
    \/ CompraCommit("s1")
    \/ CompraFalha("s1")
    \/ DevolucaoAbrir("s1", 1, 1, 1, TRUE)
    \/ DevolucaoInserir("s1")
    \/ DevolucaoAtualizar("s1")
    \/ DevolucaoCommit("s1")
    \/ DevolucaoFalha("s1")

SpecCusto == Init /\ [][NextCusto]_vars

\* both sessions on "Novo Pedido de Venda": cart, "Limpar Itens" and "Registrar
\* Pedido", which may find no connection, have a statement refused or lose
\* its connection
NextPedidoFalhas ==
    \/ \E s \in Sessions : VendaStep(s, {0})
    \/ \E s \in Sessions : PedidoSemConexao(s)
    \/ \E s \in Sessions : PedidoConexaoPerdida(s)

SpecPedidoFalhas == Init /\ [][NextPedidoFalhas]_vars

\* session s1 on "Compras e Recebimento de Estoque" while session s2 updates
\* the prices of the products
NextPrecoCompra ==
    \/ CompraStep("s1", CustoVals)
    \/ \E p \in ProdIds, c \in PrecoCustoVals, v \in PrecoVendaVals :
          PrecoAtualizar("s2", p, c, v, "nenhum")

SpecPrecoCompra == Init /\ [][NextPrecoCompra]_vars

\* ------------------------------------------------------------- claims
\* lines of the cart of session s for product p: their quantities summed
RECURSIVE QtdCarrinho(_, _)
QtdCarrinho(itens, p) ==
    IF itens = <<>> THEN 0
    ELSE (IF Head(itens).produto_id = p THEN Head(itens).quantidade ELSE 0)
         + QtdCarrinho(Tail(itens), p)

\* C1: with requests performed one at a time, the stock of every product is
\* never negative (in particular after committing a cart with several lines
\* of one product).
C1_EstoqueNaoNegativo ==
    \A p \in DOMAIN Produtos : Produtos[p].estoque_atual >= 0

\* C2: two sessions that each hold one cart line for the same product, each
\* accepted by the advisory check, commit in any interleaving: the stock is
\* never negative (orders with at most one line per product, so that only the
\* cross-session case is stated).
UmaLinhaPorProduto ==
    \A i, j \in DOMAIN Vendas :
        (i # j /\ Vendas[i].pedido_id = Vendas[j].pedido_id)
            => Vendas[i].produto_id # Vendas[j].produto_id

C2_DecrementoRevalidado ==
    UmaLinhaPorProduto => \A p \in DOMAIN Produtos : Produtos[p].estoque_atual >= 0

\* C3: a Registrar Pedido whose cart holds a line with more units than the
\* product's committed stock when the transaction ends leaves Produtos,
\* Pedidos and Vendas as they were.
LinhaExcedeEstoque(s) ==
    \E i \in DOMAIN session_vendas[s] :
        session_vendas[s][i].quantidade
            > Produtos[session_vendas[s][i].produto_id].estoque_atual

C3_CommitSemEstoqueFalha ==
    [][\A s \in Sessions :
          (pc[s] = "pedido" /\ pc'[s] = "idle" /\ LinhaExcedeEstoque(s))
              => UNCHANGED <<Produtos, Pedidos, Vendas>>]_vars

\* C4: for every (order, product) pair the committed returns never add up to
\* more than the quantity sold on that pair.
C4_DevolvidoNaoExcedeVendido ==
    \A pid \in DOMAIN Pedidos, p \in DOMAIN Produtos :
        SumQtd(Devolucoes, pid, p) <= SumQtd(Vendas, pid, p)

\* C6: an order whose status is Concluido or Cancelado never changes status.
C6_StatusTerminal ==
    [][\A pid \in DOMAIN Pedidos :
          Pedidos[pid].status_pedido \in {"Concluido", "Cancelado"}
              => Pedidos'[pid].status_pedido = Pedidos[pid].status_pedido]_vars

\* C5: Registrar Pedido is all-or-nothing.  A step that ends a session's order
\* transaction either leaves Produtos, Pedidos and Vendas unchanged or commits
\* the header, one line per cart line (in order) and every stock decrement
\* together; and no other step of a Registrar Pedido makes a header, a line or
\* a stock change visible.
PedidoInteiro(s) ==
    LET pid == loc[s].pedido_id
        cart == session_vendas[s]
    IN  /\ pid \notin DOMAIN Pedidos
        /\ DOMAIN Pedidos' = DOMAIN Pedidos \cup {pid}
        /\ Len(Vendas') = Len(Vendas) + Len(cart)
        /\ SubSeq(Vendas', 1, Len(Vendas)) = Vendas
        /\ \A i \in 1..Len(cart) :
              /\ Vendas'[Len(Vendas) + i].pedido_id = pid
              /\ Vendas'[Len(Vendas) + i].produto_id = cart[i].produto_id
              /\ Vendas'[Len(Vendas) + i].quantidade = cart[i].quantidade
        /\ \A p \in DOMAIN Produtos :
              Produtos'[p].estoque_atual = Produtos[p].estoque_atual - QtdCarrinho(cart, p)

C5_PedidoTudoOuNada ==
    [][/\ \A s \in Sessions :
             (pc[s] = "pedido" /\ pc'[s] = "idle")
                 => (UNCHANGED <<Produtos, Pedidos, Vendas>> \/ PedidoInteiro(s))
       /\ (Produtos' # Produtos \/ Vendas' # Vendas \/ DOMAIN Pedidos' # DOMAIN Pedidos)
             => \E s \in Sessions : pc[s] = "pedido" /\ pc'[s] = "idle"]_vars

\* the first attempt was rolled back (its id is used up, no row of it is
\* visible) and the second committed an order of two lines
C5_Witness ==
    /\ pedido_id_seq >= 2
    /\ 1 \notin DOMAIN Pedidos
    /\ 2 \in DOMAIN Pedidos
    /\ Len(Vendas) = 2
    /\ \A i \in DOMAIN Vendas : Vendas[i].pedido_id = 2

\* C8: every line, in a cart or committed, has discounted unit price =
\* original price x (1 - discount/100) and subtotal = discounted unit price x
\* quantity, and every committed order's valor_total is the sum of the
\* subtotals of exactly the lines inserted for it.  (Prices in cents, the
\* derived amounts in 1/100 cent; no request of this specification changes
\* preco_venda, so a line's original price is its product's preco_venda.)
RECURSIVE SumSubtotalPedido(_, _)
SumSubtotalPedido(rows, pid) ==
    IF rows = <<>> THEN 0
    ELSE (IF Head(rows).pedido_id = pid THEN Head(rows).subtotal ELSE 0)
         + SumSubtotalPedido(Tail(rows), pid)

C8_PrecoSubtotalTotal ==
    /\ \A s \in Sessions : \A i \in DOMAIN session_vendas[s] :
          LET l == session_vendas[s][i]
          IN  /\ l.preco_unit_original = Produtos[l.produto_id].preco_venda
              /\ l.preco_unit = l.preco_unit_original * (100 - l.desconto_perc)
              /\ l.subtotal = l.preco_unit * l.quantidade
    /\ \A i \in DOMAIN Vendas :
          LET v == Vendas[i]
          IN  /\ v.preco_unitario = Produtos[v.produto_id].preco_venda * (100 - v.desconto)
              /\ v.subtotal = v.preco_unitario * v.quantidade
    /\ \A pid \in DOMAIN Pedidos :
          Pedidos[pid].valor_total = SumSubtotalPedido(Vendas, pid)

\* the order of the example: {100.00, qty 2, 10%} and {50.00, qty 1, 0%},
\* subtotals 180.00 and 50.00, total 230.00
C8_Witness ==
    \E pid \in DOMAIN Pedidos :
        /\ Pedidos[pid].valor_total = 2300000
        /\ \E i, j \in DOMAIN Vendas :
              /\ Vendas[i].pedido_id = pid /\ Vendas[j].pedido_id = pid
              /\ Vendas[i].produto_id = 1 /\ Vendas[i].quantidade = 2
              /\ Vendas[i].desconto = 10 /\ Vendas[i].subtotal = 1800000
              /\ Vendas[j].produto_id = 2 /\ Vendas[j].quantidade = 1
              /\ Vendas[j].desconto = 0 /\ Vendas[j].subtotal = 500000

\* C7: a committed receipt of q units at unit cost c on a product with stock
\* s >= 0 and cost k leaves stock s + q and cost (s*k + q*c)/(s + q) rounded to
\* 4 decimal places (within half a unit of the fourth place), which is c when
\* s = 0; the two examples of the claim hold (costs in 1/10000).
Abs(x) == IF x < 0 THEN -x ELSE x

C7_CustoMedioRecebimento ==
    [][/\ \A s \in Sessions :
             (pc[s] = "compra_atualizada" /\ pc'[s] = "idle" /\ Entradas' # Entradas)
                 => LET p == loc[s].produto_id
                        q == loc[s].quantidade_entrada
                        c == loc[s].valor_unitario_compra
                        s0 == Produtos[p].estoque_atual
                        k == Produtos[p].preco_custo
                        novo == Produtos'[p].preco_custo
                    IN  s0 >= 0 =>
                          /\ Produtos'[p].estoque_atual = s0 + q
                          /\ 2 * Abs(novo * (s0 + q) - (s0 * k + q * c)) <= s0 + q
                          /\ s0 = 0 => novo = c
       /\ CustoMedio(0, 40000, 10, 50000) = 50000
       /\ CustoMedio(10, 40000, 10, 50000) = 45000]_vars

\* two receipts are committed: the first on stock 0 (1 unit at 5.00, cost
\* 5.0000), the second of 2 units at 3.33 (cost (5.00 + 6.66)/3 = 3.8867)
C7_Witness ==
    /\ Len(Entradas) = 2
    /\ Entradas[1].valor_unitario_compra = 50000
    /\ Entradas[2].valor_unitario_compra = 33300
    /\ Produtos[1].estoque_atual = 3
    /\ Produtos[1].preco_custo = 38867

\* C9: a purchase receipt is all-or-nothing.  A step that ends a session's
\* receipt transaction either leaves Entradas and Produtos unchanged or appends
\* the receipt row and writes the product's new stock and cost together; no
\* other step of a receipt makes a receipt row or a product change visible; and
\* no receipt row is ever committed for a product id that has no row.
CompraPcs == {"compra_lida", "compra_inserida", "compra_atualizada"}

CompraInteira(s) ==
    LET p == loc[s].produto_id
    IN  /\ Entradas' = Append(Entradas,
                              [produto_id |-> p,
                               quantidade_comprada |-> loc[s].quantidade_entrada,
                               valor_unitario_compra |-> loc[s].valor_unitario_compra])
        /\ Produtos'[p].estoque_atual = loc[s].estoque_atual_db + loc[s].quantidade_entrada
        /\ Produtos'[p].preco_custo = pend[s].produtos[p].preco_custo

C9_CompraTudoOuNada ==
    [][/\ \A s \in Sessions :
             (pc[s] \in CompraPcs /\ pc'[s] = "idle")
                 => (UNCHANGED <<Produtos, Entradas>> \/ CompraInteira(s))
       /\ (Produtos' # Produtos \/ Entradas' # Entradas)
             => \E s \in Sessions : pc[s] = "compra_atualizada" /\ pc'[s] = "idle"
       /\ \A i \in DOMAIN Entradas' : Entradas'[i].produto_id \in DOMAIN Produtos']_vars

\* one receipt is committed (row and stock together) while another session's
\* receipt has inserted its row, which is not visible
C9_Witness ==
    /\ Len(Entradas) = 1
    /\ Produtos[1].estoque_atual = EstoqueInicial + Entradas[1].quantidade_comprada
    /\ \E s \in Sessions : pc[s] = "compra_inserida" /\ Len(pend[s].entradas) = 1

\* C10: Confirmar Devolucao is all-or-nothing.  A step that ends a session's
\* return transaction either leaves Devolucoes and Produtos unchanged or
\* appends the Return row together with the stock increment (when the return
\* re-enters stock); no other step of a return makes a row or a stock change
\* visible.
DevolucaoPcs == {"devolucao_aberta", "devolucao_inserida", "devolucao_atualizada"}

DevolucaoInteira(s) ==
    LET p == loc[s].produto_id
    IN  /\ Devolucoes' = Append(Devolucoes,
                                [pedido_id |-> loc[s].pedido_id,
                                 produto_id |-> p,
                                 quantidade |-> loc[s].quantidade,
                                 retornou_estoque |-> loc[s].retornar_estoque])
        /\ Produtos'[p].estoque_atual =
              Produtos[p].estoque_atual
                 + (IF loc[s].retornar_estoque THEN loc[s].quantidade ELSE 0)

C10_DevolucaoTudoOuNada ==
    [][/\ \A s \in Sessions :
             (pc[s] \in DevolucaoPcs /\ pc'[s] = "idle")
                 => (UNCHANGED <<Produtos, Devolucoes>> \/ DevolucaoInteira(s))
       /\ (Produtos' # Produtos \/ Devolucoes' # Devolucoes)
             => \E s \in Sessions : pc[s] = "devolucao_atualizada" /\ pc'[s] = "idle"]_vars

\* one return that re-enters stock is committed (row and increment together)
\* while another session's return has written its row and its increment, which
\* are not visible
C10_Witness ==
    /\ Len(Devolucoes) = 1
    /\ Devolucoes[1].retornou_estoque
    /\ Produtos[1].estoque_atual = Devolucoes[1].quantidade
    /\ \E s \in Sessions :
          /\ pc[s] = "devolucao_atualizada"
          /\ Len(pend[s].devolucoes) = 1
          /\ 1 \in DOMAIN pend[s].produtos

\* C11: whatever way a statement run through execute_query fails, the gateway
\* rolls its connection back: after every request the cached connection
\* executes the next statement (it is never left in a failed transaction or
\* closed).
C11_GatewayRecupera == GatewayOk

\* C12: no update of a product's stock is lost.  Once every transaction has
\* ended, the stock of every product is its initial stock plus the quantities
\* of its receipt rows plus the quantities of its return rows that re-entered
\* stock minus the quantities of its order lines.
RECURSIVE SumRecebido(_, _)
SumRecebido(rows, p) ==
    IF rows = <<>> THEN 0
    ELSE (IF Head(rows).produto_id = p THEN Head(rows).quantidade_comprada ELSE 0)
         + SumRecebido(Tail(rows), p)

RECURSIVE SumRetornado(_, _)
SumRetornado(rows, p) ==
    IF rows = <<>> THEN 0
    ELSE (IF Head(rows).produto_id = p /\ Head(rows).retornou_estoque
          THEN Head(rows).quantidade ELSE 0)
         + SumRetornado(Tail(rows), p)

C12_EstoqueSemAtualizacaoPerdida ==
    (\A s \in Sessions : pc[s] = "idle")
        => \A p \in DOMAIN Produtos :
              Produtos[p].estoque_atual =
                  ProdutoInicial(p).estoque_atual + SumRecebido(Entradas, p)
                      + SumRetornado(Devolucoes, p) - QtdCarrinho(Vendas, p)

\* C13: a status transition (to Concluido or to Cancelado) changes only the
\* status field of the selected orders: the products' stock and cost, every
\* order's other fields, the order lines, the receipts and the returns stay as
\* they were, and no order appears or disappears; cancelling does not restock.
C13_TransicaoSoMudaStatus ==
    [][\A s \in Sessions :
          (pc[s] = "selecionado" /\ pc'[s] # "selecionado")
              => /\ UNCHANGED <<Produtos, Vendas, Entradas, Devolucoes>>
                 /\ DOMAIN Pedidos' = DOMAIN Pedidos
                 /\ \A pid \in DOMAIN Pedidos :
                       /\ [Pedidos'[pid] EXCEPT !.status_pedido = "x"]
                             = [Pedidos[pid] EXCEPT !.status_pedido = "x"]
                       /\ pid \notin loc[s].pedidos_selecionados
                             => Pedidos'[pid] = Pedidos[pid]]_vars

\* an order was cancelled and its units are still out of stock
C13_Witness ==
    \E pid \in DOMAIN Pedidos :
        /\ Pedidos[pid].status_pedido = "Cancelado"
        /\ QtdCarrinho(Vendas, 1) > 0
        /\ Produtos[1].estoque_atual = EstoqueInicial - QtdCarrinho(Vendas, 1)

\* C14: a Return row is committed only for an order whose status is Concluido
\* at the moment the return transaction commits (a return on an order that is
\* Pendente or Cancelado at that moment commits nothing).
C14_DevolucaoSoDeConcluido ==
    [][\A s \in Sessions :
          (pc[s] \in DevolucaoPcs /\ pc'[s] = "idle" /\ Devolucoes' # Devolucoes)
              => Pedidos[loc[s].pedido_id].status_pedido = "Concluido"]_vars

\* C15: a committed return with "retornar ao estoque" ticked adds exactly the
\* returned quantity to the product's stock and its row has retornou_estoque
\* true; unticked it leaves the stock as it was and the row has the flag false;
\* so across every step the stock of a product grows by what the Return rows
\* with the flag true grow by.
C15_RetornoAoEstoque ==
    [][/\ \A s \in Sessions :
             (pc[s] \in DevolucaoPcs /\ pc'[s] = "idle" /\ Devolucoes' # Devolucoes)
                 => LET p == loc[s].produto_id
                        row == Devolucoes'[Len(Devolucoes')]
                    IN  /\ row.retornou_estoque = loc[s].retornar_estoque
                        /\ row.quantidade = loc[s].quantidade
                        /\ Produtos'[p].estoque_atual =
                              Produtos[p].estoque_atual
                                 + (IF loc[s].retornar_estoque THEN loc[s].quantidade ELSE 0)
       /\ \A p \in DOMAIN Produtos :
             Produtos'[p].estoque_atual - Produtos[p].estoque_atual
                 = SumRetornado(Devolucoes', p) - SumRetornado(Devolucoes, p)]_vars

\* the example, at the size of the model: the units sold on the order came
\* back in two returns that both re-entered stock, and the stock grew by the
\* units sold
C15_Witness ==
    /\ Len(Devolucoes) = 2
    /\ Devolucoes[1].retornou_estoque /\ Devolucoes[2].retornou_estoque
    /\ Devolucoes[1].quantidade + Devolucoes[2].quantidade = QtdCarrinho(Vendas, 1)
    /\ Produtos[1].estoque_atual = QtdCarrinho(Vendas, 1)

\* C16: a Registrar Pedido with no customer selected or no payment method
\* selected commits nothing: every committed order has a customer and a
\* payment method.
C16_CamposObrigatorios ==
    \A pid \in DOMAIN Pedidos :
        /\ \E c \in DOMAIN opcoes_clientes : Pedidos[pid].cliente_id = opcoes_clientes[c]
        /\ Pedidos[pid].forma_pagamento # "None"

\* C17: Adicionar Item writes no row (products, orders, order lines and the
\* open transactions stay as they were) and a line enters a cart only when its
\* quantity is at most the product's stock as read in that request; a cart
\* changes in no other way than by that line being appended or by being
\* emptied.
C17_AdicionarItemSoCarrinho ==
    [][\A s \in Sessions :
          (session_vendas'[s] # session_vendas[s] /\ session_vendas'[s] # <<>>)
              => LET item == session_vendas'[s][Len(session_vendas'[s])]
                 IN  /\ session_vendas'[s] = Append(session_vendas[s], item)
                     /\ item.quantidade <= Produtos[item.produto_id].estoque_atual
                     /\ UNCHANGED <<db, pedido_id_seq, pend>>]_vars

\* a line was accepted against a stock that an order committed before it had
\* already reduced: the line takes all that is left
C17_Witness ==
    \E s \in Sessions :
        /\ Len(Vendas) > 0
        /\ Produtos[1].estoque_atual = 1
        /\ Len(session_vendas[s]) = 1
        /\ session_vendas[s][1].produto_id = 1
        /\ session_vendas[s][1].quantidade = 1

Cupom(pedido_id) ==
    generate_non_fiscal_coupon(pedido_id, get_order_details_for_coupon(pedido_id))

C19_CupomSoLeitura ==
    [][/\ \A s \in Sessions : (pc[s] = "cupom" /\ pc'[s] = "idle") => UNCHANGED db
       /\ \A pid \in DOMAIN Pedidos : Cupom(pid)' = Cupom(pid)
       /\ \A s, t \in Sessions :
             (tela'[s].h = "cupom" /\ tela[t].h = "cupom")
                 => \A pid \in DOMAIN tela'[s].cupons \cap DOMAIN tela[t].cupons :
                       tela'[s].cupons[pid] = tela[t].cupons[pid]]_vars

\* both sessions have generated the coupon of order 1 (the second from a
\* selection made before the first concluded it), and the product's price was
\* updated and units of it were received
C19_Witness ==
    /\ \A s \in Sessions : tela[s].h = "cupom" /\ 1 \in DOMAIN tela[s].cupons
    /\ tela["s1"].cupons[1].itens[1].unit = 10000
    /\ Produtos[1].preco_venda = 12000
    /\ Len(Entradas) > 0

\* a table kept in insertion order only grew: its committed rows are where and
\* what they were
SoCresceu(antes, depois) ==
    /\ Len(depois) >= Len(antes)
    /\ SubSeq(depois, 1, Len(antes)) = antes

\* C20: history is append-only and an order's money fields are frozen: no step
\* of the program (price update, receipt, later order, status transition,
\* return) changes or removes a committed receipt row, order line or return
\* row, no order disappears, and of a committed order only status_pedido can
\* change (valor_total, cliente_id and forma_pagamento stay as stored).
C20_HistoricoSoAcrescenta ==
    [][/\ SoCresceu(Entradas, Entradas')
       /\ SoCresceu(Vendas, Vendas')
       /\ SoCresceu(Devolucoes, Devolucoes')
       /\ DOMAIN Pedidos \subseteq DOMAIN Pedidos'
       /\ \A pid \in DOMAIN Pedidos :
             Pedidos'[pid] = [Pedidos[pid] EXCEPT
                                !.status_pedido = Pedidos'[pid].status_pedido]]_vars

\* after a receipt, a later order, a return and a status transition were all
\* committed, the product's price differs from the one order 1 was sold at
C20_Witness ==
    /\ Len(Entradas) >= 1
    /\ Len(Devolucoes) >= 1
    /\ 2 \in DOMAIN Pedidos
    /\ Len(Vendas) >= 2
    /\ Pedidos[1].status_pedido # "Pendente"
    /\ Produtos[1].preco_venda * 100 # Vendas[1].preco_unitario

\* the order lines of order pid
LinhasDoPedido(pid) == {i \in DOMAIN Vendas : Vendas[i].pedido_id = pid}

\* C21: no order is committed with an empty line sequence: in every reachable
\* state each row of Pedidos has at least one row of Vendas; a session whose
\* cart is empty creates no order (there is no "Registrar Pedido" to press);
\* and every order appears with status Pendente.
C21_PedidoTemLinhas ==
    /\ [](\A pid \in DOMAIN Pedidos : LinhasDoPedido(pid) # {})
    /\ [][\A s \in Sessions :
             (pc[s] = "idle" /\ session_vendas[s] = <<>>)
                 => /\ pc'[s] = "idle"
                    /\ pend'[s] = NoPend
                    /\ pedido_id_seq' # pedido_id_seq
                          => \E t \in Sessions \ {s} : pc'[t] = "pedido" /\ pc[t] = "idle"]_vars
    /\ [][\A pid \in DOMAIN Pedidos' \ DOMAIN Pedidos :
             Pedidos'[pid].status_pedido = "Pendente"]_vars

\* both sessions have committed an order and their carts are empty again
C21_Witness ==
    /\ DOMAIN Pedidos = {1, 2}
    /\ \A s \in Sessions : session_vendas[s] = <<>> /\ pc[s] = "idle"
    /\ \A pid \in DOMAIN Pedidos : LinhasDoPedido(pid) # {}

\* C22: when no transactional connection can be obtained or a statement fails
\* during a receipt, an order or a return, the request ends with the page's
\* error message on the screen and no exception leaves the script, the
\* committed tables are as they were and the session's cart is as it was.
C22_FalhaTratada ==
    [][\A s \in Sessions :
          (tela'[s] # tela[s] /\ tela'[s] \in {TelaErro, TelaExcecao})
              => /\ tela'[s] = TelaErro
                 /\ UNCHANGED db
                 /\ session_vendas'[s] = session_vendas[s]]_vars

RECURSIVE SumVendido(_, _)
\* units of product p in the committed order lines
SumVendido(rows, p) ==
    IF rows = <<>> THEN 0
    ELSE (IF Head(rows).produto_id = p THEN Head(rows).quantidade ELSE 0)
         + SumVendido(Tail(rows), p)

\* C23: sale decrements are never lost: under every interleaving of order and
\* return transactions of different sessions on the same product, the committed
\* stock is the stock the product started with (EstoqueInicial) minus the
\* quantities of all committed order lines plus the quantities of all committed
\* returns that went back to stock; so each committed order has decreased the
\* stock by exactly the sum of its lines' quantities.
C23_DecrementoNaoPerdido ==
    \A p \in DOMAIN Produtos :
        Produtos[p].estoque_atual =
            EstoqueInicial - SumVendido(Vendas, p) + SumRetornado(Devolucoes, p)

\* orders of both sessions and a return to stock are committed
C23_Witness ==
    /\ \A s \in Sessions : pc[s] = "idle"
    /\ DOMAIN Pedidos = {1, 2}
    /\ SumRetornado(Devolucoes, 1) >= 1
    /\ Len(Devolucoes) = 2
    /\ SumVendido(Vendas, 1) > EstoqueInicial

\* C24: after any sequence of product creations, price updates, cart additions,
\* orders, receipts and returns, every product's preco_custo is >= 0.
C24_CustoNaoNegativo ==
    \A p \in DOMAIN Produtos : Produtos[p].preco_custo >= 0

\* C25: when a line is added to a cart, the quantities of the cart's lines for
\* that product, the new one included, sum to at most the product's stock as
\* read in that request.
C25_CarrinhoDentroDoEstoque ==
    [][\A s \in Sessions :
          (session_vendas'[s] # session_vendas[s] /\ session_vendas'[s] # <<>>)
              => LET item == session_vendas'[s][Len(session_vendas'[s])]
                 IN  QtdCarrinho(session_vendas'[s], item.produto_id)
                         <= Produtos[item.produto_id].estoque_atual]_vars

\* C26: a session's cart is emptied only by "Limpar Itens" or by a committed
\* order: a step that empties a cart is either "Limpar Itens" (no row changes)
\* or the commit of the order made of exactly those lines; when "Registrar
\* Pedido" ends, the order is committed and the cart is empty (no button is left
\* to register the lines again), or nothing is committed and the cart holds
\* the lines it held.
C26_CarrinhoEsvaziado ==
    [][\A s \in Sessions :
          /\ (session_vendas[s] # <<>> /\ session_vendas'[s] = <<>>)
                => \/ pc[s] = "idle" /\ pc'[s] = "idle" /\ UNCHANGED db
                   \/ /\ pc[s] = "pedido" /\ pc'[s] = "idle"
                      /\ loc[s].pedido_id \in DOMAIN Pedidos' \ DOMAIN Pedidos
                      /\ Len(Vendas') = Len(Vendas) + Len(session_vendas[s])
                      /\ \A i \in DOMAIN session_vendas[s] :
                            LET v == Vendas'[Len(Vendas) + i]
                                item == session_vendas[s][i]
                            IN  /\ v.pedido_id = loc[s].pedido_id
                                /\ v.produto_id = item.produto_id
                                /\ v.quantidade = item.quantidade
          /\ (pc[s] = "pedido" /\ pc'[s] = "idle")
                => \/ /\ loc[s].pedido_id \in DOMAIN Pedidos'
                      /\ session_vendas'[s] = <<>>
                   \/ /\ UNCHANGED db
                      /\ session_vendas'[s] = session_vendas[s]
          /\ (pc[s] = "idle" /\ pc'[s] = "idle" /\ tela'[s] \in {TelaErro, TelaExcecao})
                => session_vendas'[s] = session_vendas[s]]_vars

\* after an order of the session was committed (its cart emptied), a second
\* attempt on new lines has failed and the lines are still in the cart
C26_Witness ==
    \E s \in Sessions :
        /\ pc[s] = "idle"
        /\ tela[s] = TelaErro
        /\ session_vendas[s] # <<>>
        /\ DOMAIN Pedidos = {1}
        /\ pedido_id_seq = 2

\* C27: a price update changes only the preco_custo and preco_venda of its
\* product (the product's stock, the other products, the orders, order lines,
\* receipts and returns stay as they were); and the cost a receipt commits is
\* the weighted average computed from the product's cost that was current
\* (committed) when the receipt committed, also when a price update came
\* between the receipt's read and its commit.
C27_PrecoSoMudaPrecos ==
    [][/\ (pc' = pc /\ Produtos' # Produtos)
            => /\ UNCHANGED <<Pedidos, Vendas, Entradas, Devolucoes>>
               /\ DOMAIN Produtos' = DOMAIN Produtos
               /\ \E p \in DOMAIN Produtos :
                     /\ \A o \in DOMAIN Produtos \ {p} : Produtos'[o] = Produtos[o]
                     /\ Produtos'[p] = [Produtos[p] EXCEPT
                                          !.preco_custo = Produtos'[p].preco_custo,
                                          !.preco_venda = Produtos'[p].preco_venda]
       /\ \A s \in Sessions :
             (pc[s] = "compra_atualizada" /\ pc'[s] = "idle" /\ Entradas' # Entradas)
                 => LET p == loc[s].produto_id
                    IN  Produtos'[p].preco_custo =
                            CustoMedio(Produtos[p].estoque_atual, Produtos[p].preco_custo,
                                       loc[s].quantidade_entrada,
                                       loc[s].valor_unitario_compra)]_vars

====
